---- MODULE Spec2Model ----
(***************************************************************************)
(* Bidirectional row replication between two contours over a message bus:  *)
(* trigger capture into replication_queue, the Publisher that drains it    *)
(* onto the bus, and the Consumer that applies remote events.              *)
(***************************************************************************)
EXTENDS Integers, Sequences, FiniteSets, TLC

(* ------------------------------ bounds -------------------------------- *)
MaxWrites == 2
MaxPubWrites == 3
MaxFaults == 1
BatchSize == 2
MaxApplyWrites == 2
MaxDays == 2

(* Every queue row is published once, plus at most one batch again per fault. *)
MaxEvents == MaxPubWrites + MaxFaults * BatchSize

Contours == {"A", "B"}
Keys == {1}
PublisherIds == {1, 2}
Partitions == {0, 1}
NumPartitions == Cardinality(Partitions)
Policies == {"last_write_wins", "skip", "error"}

(* SQL NULL for the version column, and the versions a local writer may
   put in its INSERT statement. *)
SqlNull == 0 - 1
InsertVersions == {SqlNull, 3}

VARIABLES
    tbl,        \* tbl[c][k]: the committed business row of key k on contour c
    queue,      \* queue[c]: replication_queue of contour c, in id order
    ledger,     \* ledger[c]: event ids in processed_events of contour c
    pub,        \* pub[c][p]: the drain transaction of Publisher instance p
    bus,        \* the topic: messages in append order, each with its partition
    uuids,      \* number of event ids handed out by uuid.New()
    cons,       \* cons[c]: where the Consumer is inside processMessage, and the
                \* message in hand (applied: applyEvent returned nil; seen: its
                \* ledger lookup found the event id)
    position,   \* position[c][pt]: next offset Poll returns (in-memory)
    committed,  \* committed[c][pt]: offset committed to the bus for the group
    metrics,    \* metrics[c]: processedCount, skippedCount, failedCount
    config,     \* the Consumer's configuration file, as LoadConsumer returns it
    now,        \* NOW() of the database servers, in days
    txs,        \* txs[i]: applyEvent's transaction in Consumer instance i of B's group
    writes,     \* local DML statements the writers may still issue
    faults      \* infrastructure faults that may still occur

vars == <<tbl, queue, ledger, pub, bus, uuids, cons, position,
          committed, metrics, config, now, txs, writes, faults>>

dbVars == <<tbl, queue, ledger>>
pubVars == <<pub>>
consVars == <<cons, position, committed, metrics>>

(* ------------------------------ sessions ------------------------------ *)
(* A database session as the trigger sees it. *)
AppSession == [application_name |-> "app", session_replication_role |-> "origin"]

(* database.Connect: the DSN carries application_name when configured;
   nothing sets session_replication_role. *)
ApplicationName == "replicator_consumer"
Connect(applicationName) ==
    [application_name |-> applicationName, session_replication_role |-> "origin"]
ConsumerSession == Connect(config.application_name)

(* The fields of ConsumerConfig that vary here; the other required fields
   (service, database host and user, brokers, consumer group, logging level)
   are always filled in. *)
Topics == <<"users_changes">>
DefaultConfig ==
    [application_name |-> ApplicationName, topics |-> Topics,
     conflict_resolution |-> "last_write_wins"]
WithPolicy(p) == [DefaultConfig EXCEPT !.conflict_resolution = p]

(* processing.conflict_resolution *)
policy == config.conflict_resolution

(* ConsumerConfig.validate: "nil" or the error. *)
validate(cfg) ==
    IF Len(cfg.topics) = 0 THEN "kafka.topics is required"
    ELSE IF cfg.conflict_resolution \notin Policies
         THEN "invalid processing.conflict_resolution"
    ELSE "nil"

(* ------------------------------ rows ---------------------------------- *)
Absent == [present |-> FALSE, version |-> 0, updated_by |-> "-"]
Row(v, by) == [present |-> TRUE, version |-> v, updated_by |-> by]

(* row_to_json(NEW/OLD) *)
row_to_json(k, r) == [id |-> k, version |-> r.version, updated_by |-> r.updated_by]

COALESCE(a, b) == IF a = SqlNull THEN b ELSE a

(* BEFORE INSERT OR UPDATE trigger: returns NEW as stored. *)
increment_version_on_update(op, old, new) ==
    IF op = "UPDATE" THEN [new EXCEPT !.version = old.version + 1]
    ELSE IF op = "INSERT" THEN [new EXCEPT !.version = COALESCE(new.version, 1)]
    ELSE new

QueueRow(q, op, data) ==
    [id |-> Len(q) + 1, table_name |-> "users", operation |-> op,
     record_data |-> data, created_at |-> now, published |-> FALSE]

(* The trigger with its DELETE branch lost. *)
generic_replication_trigger_NoDelete(session, q, op, k, old, new) ==
    IF session.session_replication_role = "replica" THEN q
    ELSE IF op = "INSERT" THEN Append(q, QueueRow(q, "INSERT", row_to_json(k, new)))
    ELSE IF op = "UPDATE" THEN
        Append(q, QueueRow(q, "UPDATE",
                           [before |-> row_to_json(k, old), after |-> row_to_json(k, new)]))
    ELSE q

(* AFTER INSERT OR UPDATE OR DELETE trigger: the queue after the trigger ran
   for one row in the given session. *)
generic_replication_trigger(session, q, op, k, old, new) ==
    IF session.session_replication_role = "replica" THEN q
    ELSE IF op = "INSERT" THEN Append(q, QueueRow(q, "INSERT", row_to_json(k, new)))
    ELSE IF op = "UPDATE" THEN
        Append(q, QueueRow(q, "UPDATE",
                           [before |-> row_to_json(k, old), after |-> row_to_json(k, new)]))
    ELSE IF op = "DELETE" THEN Append(q, QueueRow(q, "DELETE", row_to_json(k, old)))
    ELSE q

(* One DML statement on the business table inside a transaction whose view
   of the database is db = [tbl, queue]; both triggers fire FOR EACH ROW, so
   a statement that matches no row fires none. *)
SqlInsert(session, db, k, new) ==
    LET stored == increment_version_on_update("INSERT", Absent, new)
    IN  [tbl   |-> [db.tbl EXCEPT ![k] = stored],
         queue |-> generic_replication_trigger(session, db.queue, "INSERT", k, Absent, stored)]

SqlUpdate(session, db, k, new) ==
    IF ~db.tbl[k].present THEN db
    ELSE LET old == db.tbl[k]
             stored == increment_version_on_update("UPDATE", old, new)
         IN  [tbl   |-> [db.tbl EXCEPT ![k] = stored],
              queue |-> generic_replication_trigger(session, db.queue, "UPDATE", k, old, stored)]

(* A DELETE whose trigger is FOR EACH STATEMENT: it fires although no row
   matched. *)
SqlDeletePerStatement(session, db, k) ==
    [tbl   |-> [db.tbl EXCEPT ![k] = Absent],
     queue |-> generic_replication_trigger(session, db.queue, "DELETE", k, db.tbl[k], Absent)]

SqlDelete(session, db, k) ==
    IF ~db.tbl[k].present THEN db
    ELSE LET old == db.tbl[k]
         IN  [tbl   |-> [db.tbl EXCEPT ![k] = Absent],
              queue |-> generic_replication_trigger(session, db.queue, "DELETE", k, old, Absent)]

Db(c) == [tbl |-> tbl[c], queue |-> queue[c]]

(* ------------------------------ local writers ------------------------- *)
(* The business application: one autocommitted statement per step. *)
LocalInsert(c, k, v) ==
    /\ writes > 0
    /\ ~tbl[c][k].present
    /\ LET db == SqlInsert(AppSession, Db(c), k, Row(v, c))
       IN  /\ tbl' = [tbl EXCEPT ![c] = db.tbl]
           /\ queue' = [queue EXCEPT ![c] = db.queue]
    /\ writes' = writes - 1
    /\ UNCHANGED <<ledger, pubVars, bus, uuids, consVars, config, now, txs, faults>>

LocalUpdate(c, k) ==
    /\ writes > 0
    /\ tbl[c][k].present
    /\ LET db == SqlUpdate(AppSession, Db(c), k, Row(tbl[c][k].version, c))
       IN  /\ tbl' = [tbl EXCEPT ![c] = db.tbl]
           /\ queue' = [queue EXCEPT ![c] = db.queue]
    /\ writes' = writes - 1
    /\ UNCHANGED <<ledger, pubVars, bus, uuids, consVars, config, now, txs, faults>>

(* UPDATE ... SET version = v: the writer supplies a version of its own. *)
LocalUpdateSupplying(c, k, v) ==
    /\ writes > 0
    /\ tbl[c][k].present
    /\ LET db == SqlUpdate(AppSession, Db(c), k, Row(v, c))
       IN  /\ tbl' = [tbl EXCEPT ![c] = db.tbl]
           /\ queue' = [queue EXCEPT ![c] = db.queue]
    /\ writes' = writes - 1
    /\ UNCHANGED <<ledger, pubVars, bus, uuids, consVars, config, now, txs, faults>>

LocalDelete(c, k) ==
    /\ writes > 0
    /\ tbl[c][k].present
    /\ LET db == SqlDelete(AppSession, Db(c), k)
       IN  /\ tbl' = [tbl EXCEPT ![c] = db.tbl]
           /\ queue' = [queue EXCEPT ![c] = db.queue]
    /\ writes' = writes - 1
    /\ UNCHANGED <<ledger, pubVars, bus, uuids, consVars, config, now, txs, faults>>

(* ------------------------------ events -------------------------------- *)
Nil == [nil |-> TRUE]
EmptyMap == [x \in {} |-> 0]

(* uuid.New().String(): the n-th id handed out. *)
UUID(n) == "e" \o ToString(n)

(* fmt.Sprintf("%v", id) *)
Sprintf_v(id) == ToString(id)

NewReplicationEvent(eventId, contour, database, tableName, operation, recordData) ==
    [event_id    |-> eventId,
     source      |-> [contour |-> contour, database |-> database],
     table       |-> tableName,
     operation   |-> operation,
     primary_key |-> IF "id" \in DOMAIN recordData
                     THEN [id |-> recordData.id] ELSE EmptyMap,
     before      |-> IF operation = "DELETE" THEN recordData ELSE Nil,
     after       |-> IF operation \in {"INSERT", "UPDATE"} THEN recordData ELSE Nil]

ExtractPartitionKey(e) ==
    IF "id" \in DOMAIN e.primary_key THEN Sprintf_v(e.primary_key.id) ELSE e.event_id

(* ReplicationEvent.ToJSON: before and after are omitempty. *)
ToJSON(e) ==
    [f \in {g \in DOMAIN e : ~(g \in {"before", "after"} /\ e[g] = Nil)} |-> e[f]]

(* A replication_queue row scanned into database.ReplicationQueue: the table
   has no primary_key_value column, so the field keeps its zero value. *)
ReplicationQueue(row) ==
    [ID |-> row.id, Table |-> row.table_name, Operation |-> row.operation,
     RecordData |-> row.record_data, PrimaryKeyValue |-> ""]

(* The bus partitioner: a fixed function of the message key. *)
Hash(key) ==
    IF \E k \in Keys : Sprintf_v(k) = key
    THEN (CHOOSE k \in Keys : Sprintf_v(k) = key) % NumPartitions
    ELSE (CHOOSE n \in 1 .. (MaxEvents + 1) : UUID(n) = key) % NumPartitions

(* Producer.Produce once the delivery report came back without error: the
   message is in the log.  from/qid record which queue row it was built from. *)
Produce(log, topic, key, value, from, qid) ==
    Append(log, [topic |-> topic, key |-> key, partition |-> Hash(key),
                 value |-> value, from |-> from, qid |-> qid])

(* Publisher.publishRecord, Produce succeeding. *)
publishRecord(log, c, record, eventId) ==
    LET event == NewReplicationEvent(eventId, c, "db", record.Table,
                                     record.Operation, record.RecordData)
        topic == record.Table \o "_changes"
        partitionKey == IF record.PrimaryKeyValue = ""
                        THEN ExtractPartitionKey(event)
                        ELSE record.PrimaryKeyValue
    IN  Produce(log, topic, partitionKey, ToJSON(event), c, record.ID)

(* ------------------------------ Publisher ----------------------------- *)
Idle == [pc |-> "idle", records |-> <<>>, publishedIDs |-> <<>>]

SeqToSet(s) == {s[i] : i \in 1 .. Len(s)}

(* Rows locked FOR UPDATE by the open drain transactions of contour c. *)
Locked(c) == UNION {SeqToSet(pub[c][p].records) : p \in PublisherIds}

RECURSIVE Ascending(_)
Ascending(S) ==
    IF S = {} THEN <<>>
    ELSE LET m == CHOOSE x \in S : \A y \in S : x <= y
         IN  <<m>> \o Ascending(S \ {m})

Take(s, n) == IF Len(s) <= n THEN s ELSE SubSeq(s, 1, n)

(* The leasing SELECT without its locking clause. *)
SelectWithoutLocking(q, locked, n) ==
    Take(Ascending({i \in 1 .. Len(q) : ~q[i].published}), n)

(* The leasing SELECT without its LIMIT. *)
SelectForUpdateSkipLockedNoLimit(q, locked, n) ==
    Ascending({i \in 1 .. Len(q) : ~q[i].published /\ i \notin locked})

(* SELECT ... WHERE published = false ORDER BY id ASC LIMIT n
   FOR UPDATE SKIP LOCKED *)
SelectForUpdateSkipLocked(q, locked, n) ==
    Take(Ascending({i \in 1 .. Len(q) : ~q[i].published /\ i \notin locked}), n)

Fault == /\ faults > 0
         /\ faults' = faults - 1

(* processBatch: Begin and the leasing SELECT.  An empty result rolls back
   and an error returns at once: both leave every variable as it was. *)
FetchRecords(c, p) ==
    /\ pub[c][p].pc = "idle"
    /\ LET records == SelectForUpdateSkipLocked(queue[c], Locked(c), BatchSize)
       IN  /\ records # <<>>
           /\ pub' = [pub EXCEPT ![c][p] =
                        [pc |-> "publishing", records |-> records, publishedIDs |-> <<>>]]
    /\ UNCHANGED <<dbVars, bus, uuids, consVars, config, now, txs, writes, faults>>

(* processBatch: one iteration of the publishing loop, Produce succeeding. *)
PublishRecord(c, p) ==
    /\ pub[c][p].pc = "publishing"
    /\ Len(pub[c][p].publishedIDs) < Len(pub[c][p].records)
    /\ uuids < MaxEvents
    /\ LET id == pub[c][p].records[Len(pub[c][p].publishedIDs) + 1]
       IN  /\ bus' = publishRecord(bus, c, ReplicationQueue(queue[c][id]), UUID(uuids + 1))
           /\ pub' = [pub EXCEPT ![c][p].publishedIDs = Append(@, id)]
    /\ uuids' = uuids + 1
    /\ UNCHANGED <<dbVars, consVars, config, now, txs, writes, faults>>

(* A Produce failure that commits the rows published so far. *)
PublishFailsCommitsPartial(c, p) ==
    /\ pub[c][p].pc = "publishing"
    /\ Len(pub[c][p].publishedIDs) < Len(pub[c][p].records)
    /\ Fault
    /\ queue' = [queue EXCEPT ![c] =
                   [i \in 1 .. Len(@) |->
                      IF i \in SeqToSet(pub[c][p].publishedIDs)
                      THEN [@[i] EXCEPT !.published = TRUE] ELSE @[i]]]
    /\ pub' = [pub EXCEPT ![c][p] = Idle]
    /\ UNCHANGED <<tbl, ledger, bus, uuids, consVars, config, now, txs, writes>>

(* A Produce failure that ends the polling loop with the transaction open. *)
PublishFailsStopsLoop(c, p) ==
    /\ pub[c][p].pc = "publishing"
    /\ Len(pub[c][p].publishedIDs) < Len(pub[c][p].records)
    /\ Fault
    /\ pub' = [pub EXCEPT ![c][p].pc = "stopped"]
    /\ UNCHANGED <<dbVars, bus, uuids, consVars, config, now, txs, writes>>

(* processBatch: Produce fails for the next record; the transaction is
   rolled back and processBatch returns the error. *)
PublishFails(c, p) ==
    /\ pub[c][p].pc = "publishing"
    /\ Len(pub[c][p].publishedIDs) < Len(pub[c][p].records)
    /\ Fault
    /\ pub' = [pub EXCEPT ![c][p] = Idle]
    /\ UNCHANGED <<dbVars, bus, uuids, consVars, config, now, txs, writes>>

(* The flag update without its id IN (...) condition. *)
MarkEveryRow(q, ids) ==
    [i \in 1 .. Len(q) |-> [q[i] EXCEPT !.published = TRUE]]

MarkRows(q, ids) ==
    [i \in 1 .. Len(q) |-> IF i \in SeqToSet(ids) THEN [q[i] EXCEPT !.published = TRUE]
                           ELSE q[i]]

(* processBatch: UPDATE ... SET published = true WHERE id IN publishedIDs,
   then Commit. *)
MarkPublished(c, p) ==
    /\ pub[c][p].pc = "publishing"
    /\ Len(pub[c][p].publishedIDs) = Len(pub[c][p].records)
    /\ queue' = [queue EXCEPT ![c] = MarkRows(@, pub[c][p].publishedIDs)]
    /\ pub' = [pub EXCEPT ![c][p] = Idle]
    /\ UNCHANGED <<tbl, ledger, bus, uuids, consVars, config, now, txs, writes, faults>>

(* processBatch: the UPDATE or the Commit returns an error. *)
MarkFails(c, p) ==
    /\ pub[c][p].pc = "publishing"
    /\ Len(pub[c][p].publishedIDs) = Len(pub[c][p].records)
    /\ Fault
    /\ pub' = [pub EXCEPT ![c][p] = Idle]
    /\ UNCHANGED <<dbVars, bus, uuids, consVars, config, now, txs, writes>>

(* The Publisher process dies inside a drain: the database aborts its
   transaction and the restarted process begins a new drain. *)
PublisherCrash(c, p) ==
    /\ pub[c][p].pc = "publishing"
    /\ Fault
    /\ pub' = [pub EXCEPT ![c][p] = Idle]
    /\ UNCHANGED <<dbVars, bus, uuids, consVars, config, now, txs, writes>>

(* main: the shutdown signal cancels the context the drain transaction was
   begun with, so the database rolls the transaction back, wherever the
   publishing loop stands; Start returns at its next select. *)
Stopped == [pc |-> "stopped", records |-> <<>>, publishedIDs |-> <<>>]

PublisherShutdown(c, p) ==
    /\ pub[c][p].pc \in {"idle", "publishing"}
    /\ pub' = [pub EXCEPT ![c][p] = Stopped]
    /\ UNCHANGED <<dbVars, bus, uuids, consVars, config, now, txs, writes, faults>>

(* processBatch: a panic inside the publishing loop is recovered by the
   deferred function, which rolls the transaction back; processBatch
   returns nil. *)
PublishPanics(c, p) ==
    /\ pub[c][p].pc = "publishing"
    /\ Fault
    /\ pub' = [pub EXCEPT ![c][p] = Idle]
    /\ UNCHANGED <<dbVars, bus, uuids, consVars, config, now, txs, writes>>

(* ------------------------------ janitor ------------------------------- *)
(* What is left at the id of a row the janitor deleted: ids are never
   reused, and no query of the Publisher (published = false) sees it. *)
Deleted == [deleted |-> TRUE, published |-> TRUE]
IsDeleted(row) == "deleted" \in DOMAIN row

(* The values passed as retention_days. *)
Retentions == {0, 1}

(* A janitor without the published = TRUE condition. *)
cleanup_any_row(q, today, retention_days) ==
    [i \in 1 .. Len(q) |->
        IF ~IsDeleted(q[i]) /\ q[i].created_at < today - retention_days
        THEN Deleted ELSE q[i]]

(* DELETE FROM replication_queue WHERE published = TRUE
   AND created_at < NOW() - retention_days *)
cleanup_replication_queue(q, today, retention_days) ==
    [i \in 1 .. Len(q) |->
        IF ~IsDeleted(q[i]) /\ q[i].published /\ q[i].created_at < today - retention_days
        THEN Deleted ELSE q[i]]

(* SELECT cleanup_replication_queue(retention_days), run from time to time.
   The DELETE waits for rows a drain transaction has locked. *)
Cleanup(c, retention_days) ==
    /\ \A i \in Locked(c) :
          cleanup_replication_queue(queue[c], now, retention_days)[i] = queue[c][i]
    /\ queue' = [queue EXCEPT ![c] = cleanup_replication_queue(@, now, retention_days)]
    /\ queue' # queue
    /\ UNCHANGED <<tbl, ledger, pubVars, bus, uuids, consVars, config, now, txs, writes, faults>>

(* A day passes. *)
Tick ==
    /\ now < MaxDays
    /\ now' = now + 1
    /\ UNCHANGED <<dbVars, pubVars, bus, uuids, consVars, config, txs, writes, faults>>

(* ------------------------------ event documents ----------------------- *)
(* A payload that is not a JSON document, and json.Unmarshal's verdict. *)
Malformed == [malformed |-> TRUE]
UnmarshalFails(value) == "malformed" \in DOMAIN value

(* json.Unmarshal into consumer.ReplicationEvent: a missing map stays nil. *)
Unmarshal(doc) ==
    [event_id    |-> doc["event_id"],
     source      |-> doc["source"],
     table       |-> doc["table"],
     operation   |-> doc["operation"],
     primary_key |-> doc["primary_key"],
     before      |-> IF "before" \in DOMAIN doc THEN doc["before"] ELSE Nil,
     after       |-> IF "after" \in DOMAIN doc THEN doc["after"] ELSE Nil]

(* nil passed as a query argument is SQL NULL. *)
GetPrimaryKeyValue(e) ==
    IF "id" \in DOMAIN e.primary_key THEN e.primary_key.id ELSE SqlNull

GetVersion(e) ==
    LET data == IF e.after # Nil THEN e.after
                ELSE IF e.before # Nil THEN e.before ELSE Nil
    IN  IF data = Nil THEN 0
        ELSE IF "version" \in DOMAIN data THEN data.version ELSE 0

(* ------------------------------ EventApplier -------------------------- *)
(* tx.Table(t).Select("version").Where("id = ?", pk).Scan(&existingVersion):
   Scan reports no error when the query returns no row (only First, Take
   and Last raise ErrRecordNotFound) and leaves existingVersion at zero. *)
ScanVersion(T, pk) ==
    [Error |-> "nil",
     existingVersion |-> IF pk \in DOMAIN T /\ T[pk].present THEN T[pk].version ELSE 0]

Ok(db) == [err |-> FALSE, db |-> db]
Err(db) == [err |-> TRUE, db |-> db]

RowColumns == {"id", "version", "updated_by"}

(* buildInsertSQL + Exec: every key of data is a column of the statement. *)
ExecInsert(session, db, data) ==
    IF ~(DOMAIN data \subseteq RowColumns /\ "id" \in DOMAIN data) THEN Err(db)
    ELSE IF data.id \in DOMAIN db.tbl /\ db.tbl[data.id].present THEN Err(db)
    ELSE Ok(SqlInsert(session, db, data.id, Row(data.version, data.updated_by)))

(* buildUpdateSQL + Exec: SET every key of data but id, WHERE id = pk. *)
ExecUpdate(session, db, pk, data) ==
    IF ~(DOMAIN data \subseteq RowColumns) THEN Err(db)
    ELSE IF pk \notin DOMAIN db.tbl THEN Ok(db)
    ELSE Ok(SqlUpdate(session, db, pk, Row(data.version, data.updated_by)))

ExecDelete(session, db, pk) ==
    IF pk \notin DOMAIN db.tbl THEN Ok(db) ELSE Ok(SqlDelete(session, db, pk))

(* Conflict resolution in which skip compares versions like
   last_write_wins. *)
resolveConflictSkipOverwrites(pol, session, db, primaryKey, existingVersion, incomingVersion, data) ==
    IF pol \in {"last_write_wins", "skip"} THEN
        IF incomingVersion > existingVersion
        THEN ExecUpdate(session, db, primaryKey, data)
        ELSE Ok(db)
    ELSE Err(db)

(* Conflict resolution in which error skips like skip. *)
resolveConflictErrorSkips(pol, session, db, primaryKey, existingVersion, incomingVersion, data) ==
    IF pol = "last_write_wins" THEN
        IF incomingVersion > existingVersion
        THEN ExecUpdate(session, db, primaryKey, data)
        ELSE Ok(db)
    ELSE Ok(db)

resolveConflict(pol, session, db, primaryKey, existingVersion, incomingVersion, data) ==
    IF pol = "last_write_wins" THEN
        IF incomingVersion > existingVersion
        THEN ExecUpdate(session, db, primaryKey, data)
        ELSE Ok(db)
    ELSE IF pol = "skip" THEN Ok(db)
    ELSE Err(db)

handleVersionConflict(pol, db) ==
    IF pol \in {"last_write_wins", "skip"} THEN Ok(db) ELSE Err(db)

applyInsert(pol, session, db, event) ==
    IF event.after = Nil THEN Err(db)
    ELSE LET data == event.after
             primaryKeyValue == GetPrimaryKeyValue(event)
             incomingVersion == GetVersion(event)
             result == ScanVersion(db.tbl, primaryKeyValue)
         IN  IF result.Error # "nil" /\ result.Error # "ErrRecordNotFound" THEN Err(db)
             ELSE IF result.Error = "nil"
             THEN resolveConflict(pol, session, db, primaryKeyValue,
                                  result.existingVersion, incomingVersion, data)
             ELSE ExecInsert(session, db, data)

applyUpdate(pol, session, db, event) ==
    IF event.after = Nil THEN Err(db)
    ELSE LET data == event.after
             primaryKeyValue == GetPrimaryKeyValue(event)
             incomingVersion == GetVersion(event)
             result == ScanVersion(db.tbl, primaryKeyValue)
         IN  IF result.Error = "ErrRecordNotFound" THEN applyInsert(pol, session, db, event)
             ELSE IF result.Error # "nil" THEN Err(db)
             ELSE IF result.existingVersion >= incomingVersion
             THEN handleVersionConflict(pol, db)
             ELSE ExecUpdate(session, db, primaryKeyValue, data)

(* A DELETE that is skipped when the local row is newer than the event. *)
applyDeleteIfNotNewer(session, db, event) ==
    LET primaryKeyValue == GetPrimaryKeyValue(event)
        result == ScanVersion(db.tbl, primaryKeyValue)
    IN  IF result.existingVersion > GetVersion(event) THEN Ok(db)
        ELSE ExecDelete(session, db, primaryKeyValue)

(* A DELETE that only removes the row when it holds the pre-image's version. *)
applyDeleteIfSameVersion(session, db, event) ==
    LET primaryKeyValue == GetPrimaryKeyValue(event)
        result == ScanVersion(db.tbl, primaryKeyValue)
    IN  IF result.existingVersion # GetVersion(event) THEN Ok(db)
        ELSE ExecDelete(session, db, primaryKeyValue)

applyDelete(session, db, event) ==
    LET primaryKeyValue == GetPrimaryKeyValue(event)
        result == ScanVersion(db.tbl, primaryKeyValue)
    IN  IF result.Error = "ErrRecordNotFound" THEN Ok(db)
        ELSE IF result.Error # "nil" THEN Err(db)
        ELSE ExecDelete(session, db, primaryKeyValue)

Apply(pol, session, db, event) ==
    IF event.operation = "INSERT" THEN applyInsert(pol, session, db, event)
    ELSE IF event.operation = "UPDATE" THEN applyUpdate(pol, session, db, event)
    ELSE IF event.operation = "DELETE" THEN applyDelete(session, db, event)
    ELSE Err(db)

(* A fault outside the service: some other producer appends a payload that
   is not an event document to the topic. *)
ProduceMalformed(pt) ==
    /\ Fault
    /\ bus' = Append(bus, [topic |-> "users_changes", key |-> "", partition |-> pt,
                           value |-> Malformed, from |-> "-", qid |-> 0])
    /\ UNCHANGED <<dbVars, pubVars, uuids, consVars, config, now, txs, writes>>

(* A fault outside the service: some other producer of contour A appends a
   well-formed event document whose operation the applier does not know. *)
ProduceUnknownOperation(pt) ==
    /\ Fault
    /\ bus' = Append(bus, [topic |-> "users_changes", key |-> "1", partition |-> pt,
                           value |-> [event_id |-> "x", operation |-> "TRUNCATE",
                                      source |-> [contour |-> "A", database |-> "db"],
                                      table |-> "users", primary_key |-> [id |-> 1]],
                           from |-> "-", qid |-> 0])
    /\ UNCHANGED <<dbVars, pubVars, uuids, consVars, config, now, txs, writes>>

(* ------------------------------ Consumer ------------------------------ *)
(* The origin filter letting every event through. *)
shouldProcessEverything(c, event) == TRUE

shouldProcess(c, event) == event.source.contour # c

(* applyEvent without the lookup in processed_events. *)
applyEventWithoutLookup(pol, session, db, led, event) ==
    LET r == Apply(pol, session, db, event)
    IN  IF r.err
        THEN [err |-> TRUE, seen |-> FALSE, db |-> db, ledger |-> led]
        ELSE [err |-> FALSE, seen |-> FALSE, db |-> r.db,
              ledger |-> led \cup {event.event_id}]

(* Consumer.applyEvent with every database call succeeding: the ledger
   lookup, Apply, the ledger insert and Commit.  seen tells that the lookup
   found the event id and the transaction was rolled back. *)
applyEvent(pol, session, db, led, event) ==
    IF event.event_id \in led
    THEN [err |-> FALSE, seen |-> TRUE, db |-> db, ledger |-> led]
    ELSE LET r == Apply(pol, session, db, event)
         IN  IF r.err
             THEN [err |-> TRUE, seen |-> FALSE, db |-> db, ledger |-> led]
             ELSE [err |-> FALSE, seen |-> FALSE, db |-> r.db,
                   ledger |-> led \cup {event.event_id}]

(* The messages of one partition, in offset order (offsets start at 0). *)
PartitionLog(pt) == SelectSeq(bus, LAMBDA m : m.partition = pt)
MessageAt(pt, off) == PartitionLog(pt)[off + 1]
Lag(c, pt) == position[c][pt] < Len(PartitionLog(pt))

Polling == [pc |-> "poll", partition |-> 0, offset |-> 0, applied |-> FALSE,
            seen |-> FALSE]

Count(c, counter) == metrics' = [metrics EXCEPT ![c][counter] = @ + 1]

(* main: the process before LoadConsumer, and after os.Exit(1). *)
Booting == [Polling EXCEPT !.pc = "boot"]
Exited == [Polling EXCEPT !.pc = "exited"]

(* main: LoadConsumer returns the configuration, Connect opens the database
   session and Start enters its loop. *)
StartConsumer(c) ==
    /\ cons[c].pc = "boot"
    /\ validate(config) = "nil"
    /\ cons' = [cons EXCEPT ![c] = Polling]
    /\ UNCHANGED <<dbVars, pubVars, bus, uuids, position, committed, metrics, config, now, txs,
                   writes, faults>>

(* main: LoadConsumer returns an error and the process exits. *)
RefuseToStart(c) ==
    /\ cons[c].pc = "boot"
    /\ validate(config) # "nil"
    /\ cons' = [cons EXCEPT ![c] = Exited]
    /\ UNCHANGED <<dbVars, pubVars, bus, uuids, position, committed, metrics, config, now, txs,
                   writes, faults>>

(* processMessage: Poll returns an error. *)
PollFails(c) ==
    /\ cons[c].pc = "poll"
    /\ Fault
    /\ Count(c, "failedCount")
    /\ UNCHANGED <<dbVars, pubVars, bus, uuids, cons, position, committed, config, now, txs, writes>>

(* processMessage: an event of the own contour is skipped and handed to
   Commit. *)
SkipOwnEvent(c, pt) ==
    /\ cons[c].pc = "poll"
    /\ Lag(c, pt)
    /\ ~UnmarshalFails(MessageAt(pt, position[c][pt]).value)
    /\ LET event == Unmarshal(MessageAt(pt, position[c][pt]).value)
       IN  ~shouldProcess(c, event)
    /\ Count(c, "skippedCount")
    /\ cons' = [cons EXCEPT ![c] = [pc |-> "commit", partition |-> pt,
                                    offset |-> position[c][pt], applied |-> FALSE,
                                    seen |-> FALSE]]
    /\ position' = [position EXCEPT ![c][pt] = @ + 1]
    /\ UNCHANGED <<dbVars, pubVars, bus, uuids, committed, config, now, txs, writes, faults>>

(* processMessage: applyEvent returns nil; the message goes on to Commit. *)
ApplyEvent(c, pt) ==
    /\ cons[c].pc = "poll"
    /\ Lag(c, pt)
    /\ ~UnmarshalFails(MessageAt(pt, position[c][pt]).value)
    /\ LET event == Unmarshal(MessageAt(pt, position[c][pt]).value)
           r == applyEvent(policy, ConsumerSession, Db(c), ledger[c], event)
       IN  /\ shouldProcess(c, event)
           /\ ~r.err
           /\ tbl' = [tbl EXCEPT ![c] = r.db.tbl]
           /\ queue' = [queue EXCEPT ![c] = r.db.queue]
           /\ ledger' = [ledger EXCEPT ![c] = r.ledger]
           /\ cons' = [cons EXCEPT ![c] = [pc |-> "commit", partition |-> pt,
                                           offset |-> position[c][pt], applied |-> TRUE,
                                           seen |-> r.seen]]
    /\ position' = [position EXCEPT ![c][pt] = @ + 1]
    /\ UNCHANGED <<pubVars, bus, uuids, committed, metrics, config, now, txs, writes, faults>>

(* A failed apply that commits the message all the same. *)
ApplyEventFailsAndCommits(c, pt) ==
    /\ cons[c].pc = "poll"
    /\ Lag(c, pt)
    /\ ~UnmarshalFails(MessageAt(pt, position[c][pt]).value)
    /\ LET event == Unmarshal(MessageAt(pt, position[c][pt]).value)
           r == applyEvent(policy, ConsumerSession, Db(c), ledger[c], event)
       IN  /\ shouldProcess(c, event)
           /\ \/ r.err /\ UNCHANGED faults
              \/ Fault
    /\ Count(c, "failedCount")
    /\ position' = [position EXCEPT ![c][pt] = @ + 1]
    /\ committed' = [committed EXCEPT ![c][pt] = position[c][pt] + 1]
    /\ UNCHANGED <<dbVars, pubVars, bus, uuids, cons, config, now, txs, writes>>

(* processMessage: applyEvent returns an error (Apply refuses the event, or
   a database call fails); the transaction is rolled back, the message is
   not committed and Start counts the failure. *)
ApplyEventFails(c, pt) ==
    /\ cons[c].pc = "poll"
    /\ Lag(c, pt)
    /\ ~UnmarshalFails(MessageAt(pt, position[c][pt]).value)
    /\ LET event == Unmarshal(MessageAt(pt, position[c][pt]).value)
           r == applyEvent(policy, ConsumerSession, Db(c), ledger[c], event)
       IN  /\ shouldProcess(c, event)
           /\ \/ r.err /\ UNCHANGED faults
              \/ Fault
    /\ Count(c, "failedCount")
    /\ position' = [position EXCEPT ![c][pt] = @ + 1]
    /\ UNCHANGED <<dbVars, pubVars, bus, uuids, cons, committed, config, now, txs, writes>>

(* main: the shutdown signal arrives while applyEvent's transaction is open:
   the cancelled context rolls it back, processMessage returns the error
   and Start returns at its next select. *)
ApplyEventCancelled(c, pt) ==
    /\ cons[c].pc = "poll"
    /\ Lag(c, pt)
    /\ ~UnmarshalFails(MessageAt(pt, position[c][pt]).value)
    /\ shouldProcess(c, Unmarshal(MessageAt(pt, position[c][pt]).value))
    /\ Count(c, "failedCount")
    /\ position' = [position EXCEPT ![c][pt] = @ + 1]
    /\ cons' = [cons EXCEPT ![c] = [Polling EXCEPT !.pc = "stopped"]]
    /\ UNCHANGED <<dbVars, pubVars, bus, uuids, committed, config, now, txs, writes, faults>>

(* main: the shutdown signal arrives between two processMessage calls. *)
ConsumerShutdown(c) ==
    /\ cons[c].pc = "poll"
    /\ cons' = [cons EXCEPT ![c] = [Polling EXCEPT !.pc = "stopped"]]
    /\ UNCHANGED <<dbVars, pubVars, bus, uuids, position, committed, metrics, config, now, txs,
                   writes, faults>>

(* processMessage: a panic inside applyEvent, after the ledger lookup, is
   recovered by the deferred function, which rolls the transaction back;
   applyEvent has no named result, so it returns nil and the message goes
   on to Commit. *)
ApplyEventPanics(c, pt) ==
    /\ cons[c].pc = "poll"
    /\ Lag(c, pt)
    /\ ~UnmarshalFails(MessageAt(pt, position[c][pt]).value)
    /\ LET event == Unmarshal(MessageAt(pt, position[c][pt]).value)
       IN  /\ shouldProcess(c, event)
           /\ event.event_id \notin ledger[c]
    /\ Fault
    /\ cons' = [cons EXCEPT ![c] = [pc |-> "commit", partition |-> pt,
                                    offset |-> position[c][pt], applied |-> TRUE,
                                    seen |-> FALSE]]
    /\ position' = [position EXCEPT ![c][pt] = @ + 1]
    /\ UNCHANGED <<dbVars, pubVars, bus, uuids, committed, metrics, config, now, txs, writes>>

(* A parse failure that returns the error without committing the message. *)
ParseFailsWithoutCommit(c, pt) ==
    /\ cons[c].pc = "poll"
    /\ Lag(c, pt)
    /\ UnmarshalFails(MessageAt(pt, position[c][pt]).value)
    /\ Count(c, "failedCount")
    /\ position' = [position EXCEPT ![c][pt] = @ + 1]
    /\ UNCHANGED <<dbVars, pubVars, bus, uuids, cons, committed, config, now, txs, writes, faults>>

(* processMessage: json.Unmarshal fails; the message is committed (the
   result of Commit is dropped) and the error is returned to Start, which
   counts the failure. *)
ParseFails(c, pt) ==
    /\ cons[c].pc = "poll"
    /\ Lag(c, pt)
    /\ UnmarshalFails(MessageAt(pt, position[c][pt]).value)
    /\ \/ /\ committed' = [committed EXCEPT ![c][pt] = position[c][pt] + 1]
          /\ UNCHANGED faults
       \/ /\ Fault
          /\ UNCHANGED committed
    /\ Count(c, "failedCount")
    /\ position' = [position EXCEPT ![c][pt] = @ + 1]
    /\ UNCHANGED <<dbVars, pubVars, bus, uuids, cons, config, now, txs, writes>>

(* processMessage: Consumer.Commit(message) stores offset + 1. *)
CommitMessage(c) ==
    /\ cons[c].pc = "commit"
    /\ committed' = [committed EXCEPT ![c][cons[c].partition] = cons[c].offset + 1]
    /\ metrics' = IF cons[c].applied
                  THEN [metrics EXCEPT ![c].processedCount = @ + 1]
                  ELSE metrics
    /\ cons' = [cons EXCEPT ![c] = Polling]
    /\ UNCHANGED <<dbVars, pubVars, bus, uuids, position, config, now, txs, writes, faults>>

(* processMessage: Consumer.Commit(message) returns an error. *)
CommitMessageFails(c) ==
    /\ cons[c].pc = "commit"
    /\ Fault
    /\ Count(c, "failedCount")
    /\ cons' = [cons EXCEPT ![c] = Polling]
    /\ UNCHANGED <<dbVars, pubVars, bus, uuids, position, committed, config, now, txs, writes>>

(* The Consumer process dies and is restarted: it resumes every partition
   at the committed offset, with zeroed counters. *)
ConsumerCrash(c) ==
    /\ cons[c].pc \in {"poll", "commit"}
    /\ Fault
    /\ cons' = [cons EXCEPT ![c] = Polling]
    /\ position' = [position EXCEPT ![c] = committed[c]]
    /\ metrics' = [metrics EXCEPT ![c] =
                     [processedCount |-> 0, skippedCount |-> 0, failedCount |-> 0]]
    /\ UNCHANGED <<dbVars, pubVars, bus, uuids, committed, config, now, txs, writes>>

(* ------------------ Consumer instances of one group ------------------- *)
(* Two Consumer processes of one contour that were handed the same
   partitions (a rebalance before the first instance committed its
   offsets).  Each runs applyEvent as a READ COMMITTED transaction of
   several statements; db buffers what the transaction wrote. *)
ConsumerIds == {1, 2}

NoTx == [pc |-> "poll", partition |-> 0, position |-> [pt \in Partitions |-> 0],
         wrote |-> FALSE, db |-> [tbl |-> [k \in Keys |-> Absent], queue |-> <<>>],
         outcome |-> "none"]

TxEvent(i) ==
    Unmarshal(MessageAt(txs[i].partition, txs[i].position[txs[i].partition]).value)

(* applyEvent returns: the transaction is over and the instance polls the
   next message of the partition. *)
Return(i, pt, outcome) ==
    [NoTx EXCEPT !.position = [txs[i].position EXCEPT ![pt] = @ + 1],
                 !.outcome = outcome]

(* The rows another open transaction of the group has written and not yet
   committed are locked. *)
RowLocked(i) ==
    \E j \in ConsumerIds \ {i} : txs[j].pc \in {"applied", "inserted"} /\ txs[j].wrote

(* applyEvent: Begin and the processed_events lookup.  A found event id
   rolls back and returns nil. *)
LookupEvent(c, i, pt) ==
    /\ txs[i].pc = "poll"
    /\ txs[i].position[pt] < Len(PartitionLog(pt))
    /\ ~UnmarshalFails(MessageAt(pt, txs[i].position[pt]).value)
    /\ LET event == Unmarshal(MessageAt(pt, txs[i].position[pt]).value)
       IN  /\ shouldProcess(c, event)
           /\ txs' = [txs EXCEPT ![i] =
                        IF event.event_id \in ledger[c]
                        THEN Return(i, pt, "seen")
                        ELSE [@ EXCEPT !.pc = "lookup", !.partition = pt]]
    /\ UNCHANGED <<dbVars, pubVars, bus, uuids, consVars, config, now, writes, faults>>

(* applyEvent: Apply inside the transaction.  Its statements read the last
   committed rows; a statement that writes a locked row waits for the lock.
   An error rolls back. *)
ApplyInTx(c, i) ==
    /\ txs[i].pc = "lookup"
    /\ LET r == Apply(policy, ConsumerSession, Db(c), TxEvent(i))
       IN  /\ (r.db # Db(c)) => ~RowLocked(i)
           /\ txs' = [txs EXCEPT ![i] =
                        IF r.err THEN Return(i, txs[i].partition, "apply error")
                        ELSE [@ EXCEPT !.pc = "applied", !.wrote = (r.db # Db(c)),
                                       !.db = r.db]]
    /\ UNCHANGED <<dbVars, pubVars, bus, uuids, consVars, config, now, writes, faults>>

(* tx.Create with no primary key on processed_events. *)
CreateProcessedEventWithoutKey(c, i) ==
    /\ txs[i].pc = "applied"
    /\ txs' = [txs EXCEPT ![i].pc = "inserted"]
    /\ UNCHANGED <<dbVars, pubVars, bus, uuids, consVars, config, now, writes, faults>>

(* applyEvent: tx.Create(&processedEvent).  The primary key makes the
   INSERT wait for an open transaction that inserted the same event_id and
   fail when that event_id is committed; the failure rolls back. *)
CreateProcessedEvent(c, i) ==
    /\ txs[i].pc = "applied"
    /\ ~\E j \in ConsumerIds \ {i} :
           txs[j].pc = "inserted" /\ TxEvent(j).event_id = TxEvent(i).event_id
    /\ txs' = [txs EXCEPT ![i] =
                 IF TxEvent(i).event_id \in ledger[c]
                 THEN Return(i, txs[i].partition, "duplicate key")
                 ELSE [@ EXCEPT !.pc = "inserted"]]
    /\ UNCHANGED <<dbVars, pubVars, bus, uuids, consVars, config, now, writes, faults>>

(* applyEvent: Commit installs what the transaction wrote. *)
CommitTx(c, i) ==
    /\ txs[i].pc = "inserted"
    /\ tbl' = [tbl EXCEPT ![c] = IF txs[i].wrote THEN txs[i].db.tbl ELSE @]
    /\ queue' = [queue EXCEPT ![c] = IF txs[i].wrote THEN txs[i].db.queue ELSE @]
    /\ ledger' = [ledger EXCEPT ![c] = @ \cup {TxEvent(i).event_id}]
    /\ txs' = [txs EXCEPT ![i] = Return(i, txs[i].partition, "committed")]
    /\ UNCHANGED <<pubVars, bus, uuids, consVars, config, now, writes, faults>>

ConsumerInstance(c, i) ==
    \/ \E pt \in Partitions : LookupEvent(c, i, pt)
    \/ ApplyInTx(c, i)
    \/ CreateProcessedEvent(c, i)
    \/ CommitTx(c, i)

(* ------------------------------ specification ------------------------- *)
Init ==
    /\ tbl = [c \in Contours |-> [k \in Keys |-> Absent]]
    /\ queue = [c \in Contours |-> <<>>]
    /\ ledger = [c \in Contours |-> {}]
    /\ pub = [c \in Contours |-> [p \in PublisherIds |-> Idle]]
    /\ bus = <<>>
    /\ uuids = 0
    /\ cons = [c \in Contours |-> Polling]
    /\ position = [c \in Contours |-> [pt \in Partitions |-> 0]]
    /\ committed = [c \in Contours |-> [pt \in Partitions |-> 0]]
    /\ metrics = [c \in Contours |->
                    [processedCount |-> 0, skippedCount |-> 0, failedCount |-> 0]]
    /\ config = DefaultConfig
    /\ now = 0
    /\ txs = [i \in ConsumerIds |-> NoTx]
    /\ writes = MaxWrites
    /\ faults = MaxFaults

Write(c) ==
    \E k \in Keys :
        \/ \E v \in InsertVersions : LocalInsert(c, k, v)
        \/ LocalUpdate(c, k)
        \/ LocalDelete(c, k)

Publisher(c, p) ==
    \/ FetchRecords(c, p)
    \/ PublishRecord(c, p)
    \/ PublishFails(c, p)
    \/ MarkPublished(c, p)
    \/ MarkFails(c, p)
    \/ PublisherCrash(c, p)

Consumer(c) ==
    \/ PollFails(c)
    \/ \E pt \in Partitions :
        \/ SkipOwnEvent(c, pt)
        \/ ApplyEvent(c, pt)
        \/ ApplyEventFails(c, pt)
    \/ CommitMessage(c)
    \/ CommitMessageFails(c)
    \/ ConsumerCrash(c)

(* Local writers and a Publisher on both contours, the Consumer of contour B. *)
Next ==
    \/ \E c \in Contours : Write(c)
    \/ \E c \in Contours : Publisher(c, 1)
    \/ Consumer("B")

Spec == Init /\ [][Next]_vars

(* The capture layer and the Publisher instances of one contour. *)
NextPub ==
    \/ Write("A")
    \/ \E p \in PublisherIds : Publisher("A", p)

InitPub ==
    /\ tbl = [c \in Contours |-> [k \in Keys |-> Absent]]
    /\ queue = [c \in Contours |-> <<>>]
    /\ ledger = [c \in Contours |-> {}]
    /\ pub = [c \in Contours |-> [p \in PublisherIds |-> Idle]]
    /\ bus = <<>>
    /\ uuids = 0
    /\ cons = [c \in Contours |-> Polling]
    /\ position = [c \in Contours |-> [pt \in Partitions |-> 0]]
    /\ committed = [c \in Contours |-> [pt \in Partitions |-> 0]]
    /\ metrics = [c \in Contours |->
                    [processedCount |-> 0, skippedCount |-> 0, failedCount |-> 0]]
    /\ config = DefaultConfig
    /\ now = 0
    /\ txs = [i \in ConsumerIds |-> NoTx]
    /\ writes = MaxPubWrites
    /\ faults = MaxFaults

SpecPub == InitPub /\ [][NextPub]_vars

(* Fair scheduling of each Publisher instance's polling loop: a tick, a
   Produce call and the closing UPDATE and Commit are not postponed forever.
   Faults are bounded, so the bus and the database are eventually available. *)
PublisherLoop(c, p) == FetchRecords(c, p) \/ PublishRecord(c, p) \/ MarkPublished(c, p)

SpecPubLive ==
    InitPub /\ [][NextPub]_vars /\ \A p \in PublisherIds : WF_vars(PublisherLoop("A", p))

(* Local writers, a Publisher and the Consumer on both contours. *)
NextBoth ==
    \E c \in Contours : Write(c) \/ Publisher(c, 1) \/ Consumer(c)

SpecBoth == Init /\ [][NextBoth]_vars

(* Local writers on both contours and one direction of replication, A to
   B, under each conflict policy: the tables are empty or were seeded with the same row (version DEFAULT 1, no
   updated_by) before replication was set up. *)
Seeded == Row(1, "-")

InitApply ==
    /\ \E r \in {Absent, Seeded} : tbl = [c \in Contours |-> [k \in Keys |-> r]]
    /\ queue = [c \in Contours |-> <<>>]
    /\ ledger = [c \in Contours |-> {}]
    /\ pub = [c \in Contours |-> [p \in PublisherIds |-> Idle]]
    /\ bus = <<>>
    /\ uuids = 0
    /\ cons = [c \in Contours |-> Polling]
    /\ position = [c \in Contours |-> [pt \in Partitions |-> 0]]
    /\ committed = [c \in Contours |-> [pt \in Partitions |-> 0]]
    /\ metrics = [c \in Contours |->
                    [processedCount |-> 0, skippedCount |-> 0, failedCount |-> 0]]
    /\ config \in {WithPolicy(p) : p \in Policies}
    /\ now = 0
    /\ txs = [i \in ConsumerIds |-> NoTx]
    /\ writes = MaxApplyWrites
    /\ faults = MaxFaults

ConsumerOfRemote(c) ==
    \/ PollFails(c)
    \/ \E pt \in Partitions :
        \/ ApplyEvent(c, pt)
        \/ ApplyEventFails(c, pt)
    \/ CommitMessage(c)
    \/ CommitMessageFails(c)
    \/ ConsumerCrash(c)

NextApply ==
    \/ \E c \in Contours : Write(c)
    \/ Publisher("A", 1)
    \/ ConsumerOfRemote("B")

SpecApply == InitApply /\ [][NextApply]_vars

(* One contour's history replayed on the other: A runs the statements of
   History, in that order, on a table that starts empty, and B, which holds
   either nothing or a row of its own, only consumes. *)
History == <<"INSERT", "UPDATE", "UPDATE", "DELETE">>

HistoryWrite(c) ==
    /\ writes > 0
    /\ LET op == History[Len(History) - writes + 1]
       IN  \E k \in Keys :
             \/ op = "INSERT" /\ \E v \in InsertVersions : LocalInsert(c, k, v)
             \/ op = "UPDATE" /\ LocalUpdate(c, k)
             \/ op = "DELETE" /\ LocalDelete(c, k)

InitOrdered ==
    /\ \E r \in {Absent, Seeded} :
          tbl = [c \in Contours |-> [k \in Keys |-> IF c = "A" THEN Absent ELSE r]]
    /\ queue = [c \in Contours |-> <<>>]
    /\ ledger = [c \in Contours |-> {}]
    /\ pub = [c \in Contours |-> [p \in PublisherIds |-> Idle]]
    /\ bus = <<>>
    /\ uuids = 0
    /\ cons = [c \in Contours |-> Polling]
    /\ position = [c \in Contours |-> [pt \in Partitions |-> 0]]
    /\ committed = [c \in Contours |-> [pt \in Partitions |-> 0]]
    /\ metrics = [c \in Contours |->
                    [processedCount |-> 0, skippedCount |-> 0, failedCount |-> 0]]
    /\ config \in {WithPolicy(p) : p \in Policies}
    /\ now = 0
    /\ txs = [i \in ConsumerIds |-> NoTx]
    /\ writes = Len(History)
    /\ faults = MaxFaults

NextOrdered ==
    \/ HistoryWrite("A")
    \/ Publisher("A", 1)
    \/ ConsumerOfRemote("B")

SpecOrdered == InitOrdered /\ [][NextOrdered]_vars

(* The Consumer of B started from a configuration file, whatever it holds:
   application_name and topics present or missing, conflict_resolution valid
   or not. *)
Configs ==
    [application_name : {"", ApplicationName},
     topics : {<<>>, Topics},
     conflict_resolution : {"", "last_write_wins"}]

InitStart ==
    /\ tbl = [c \in Contours |-> [k \in Keys |-> Absent]]
    /\ queue = [c \in Contours |-> <<>>]
    /\ ledger = [c \in Contours |-> {}]
    /\ pub = [c \in Contours |-> [p \in PublisherIds |-> Idle]]
    /\ bus = <<>>
    /\ uuids = 0
    /\ cons = [c \in Contours |-> Booting]
    /\ position = [c \in Contours |-> [pt \in Partitions |-> 0]]
    /\ committed = [c \in Contours |-> [pt \in Partitions |-> 0]]
    /\ metrics = [c \in Contours |->
                    [processedCount |-> 0, skippedCount |-> 0, failedCount |-> 0]]
    /\ config \in Configs
    /\ now = 0
    /\ txs = [i \in ConsumerIds |-> NoTx]
    /\ writes = MaxWrites
    /\ faults = MaxFaults

NextStart ==
    \/ Write("A")
    \/ Publisher("A", 1)
    \/ StartConsumer("B")
    \/ RefuseToStart("B")
    \/ ConsumerOfRemote("B")

SpecStart == InitStart /\ [][NextStart]_vars

(* A's Publisher and B's Consumer with a shutdown signal that may arrive at
   any moment. *)
NextStop ==
    \/ Write("A")
    \/ Publisher("A", 1)
    \/ PublisherShutdown("A", 1)
    \/ ConsumerOfRemote("B")
    \/ \E pt \in Partitions : ApplyEventCancelled("B", pt)
    \/ ConsumerShutdown("B")

SpecStop == Init /\ [][NextStop]_vars

(* Contour A over some days: the writers, one Publisher and the janitor. *)
NextClean ==
    \/ Write("A")
    \/ Publisher("A", 1)
    \/ \E r \in Retentions : Cleanup("A", r)
    \/ Tick

SpecClean == Init /\ [][NextClean]_vars

(* Writers that supply the version column themselves: version is a BIGINT
   column without a constraint, so NULL, zero and positive values are all
   accepted. *)
SuppliedVersions == {SqlNull, 0, 3}

WriteSupplying(c) ==
    \E k \in Keys :
        \/ \E v \in SuppliedVersions : LocalInsert(c, k, v)
        \/ \E v \in SuppliedVersions : LocalUpdateSupplying(c, k, v)
        \/ LocalDelete(c, k)

NextVersion ==
    \/ WriteSupplying("A")
    \/ Publisher("A", 1)

SpecVersion == InitPub /\ [][NextVersion]_vars

(* One local write and both directions of replication under fair scheduling
   of the Publisher and Consumer loops: each table is empty or holds the
   seeded row, the contours need not agree at the start, and the Consumers
   run under any of the conflict policies. *)
InitLoop ==
    /\ tbl \in [Contours -> [Keys -> {Absent, Seeded}]]
    /\ queue = [c \in Contours |-> <<>>]
    /\ ledger = [c \in Contours |-> {}]
    /\ pub = [c \in Contours |-> [p \in PublisherIds |-> Idle]]
    /\ bus = <<>>
    /\ uuids = 0
    /\ cons = [c \in Contours |-> Polling]
    /\ position = [c \in Contours |-> [pt \in Partitions |-> 0]]
    /\ committed = [c \in Contours |-> [pt \in Partitions |-> 0]]
    /\ metrics = [c \in Contours |->
                    [processedCount |-> 0, skippedCount |-> 0, failedCount |-> 0]]
    /\ \E p \in Policies : config = WithPolicy(p)
    /\ now = 0
    /\ txs = [i \in ConsumerIds |-> NoTx]
    /\ writes = 1
    /\ faults = MaxFaults

ConsumerLoop(c) ==
    \/ \E pt \in Partitions : SkipOwnEvent(c, pt) \/ ApplyEvent(c, pt)
    \/ CommitMessage(c)

SpecLoop ==
    /\ InitLoop
    /\ [][NextBoth]_vars
    /\ \A c \in Contours : WF_vars(PublisherLoop(c, 1)) /\ WF_vars(ConsumerLoop(c))

(* One local write and a Publisher on A, two Consumer instances on B. *)
InitRace ==
    /\ tbl \in [Contours -> [Keys -> {Absent, Seeded}]]
    /\ queue = [c \in Contours |-> <<>>]
    /\ ledger = [c \in Contours |-> {}]
    /\ pub = [c \in Contours |-> [p \in PublisherIds |-> Idle]]
    /\ bus = <<>>
    /\ uuids = 0
    /\ cons = [c \in Contours |-> Polling]
    /\ position = [c \in Contours |-> [pt \in Partitions |-> 0]]
    /\ committed = [c \in Contours |-> [pt \in Partitions |-> 0]]
    /\ metrics = [c \in Contours |->
                    [processedCount |-> 0, skippedCount |-> 0, failedCount |-> 0]]
    /\ config = DefaultConfig
    /\ now = 0
    /\ txs = [i \in ConsumerIds |-> NoTx]
    /\ writes = 1
    /\ faults = MaxFaults

NextRace ==
    \/ Write("A")
    \/ Publisher("A", 1)
    \/ \E i \in ConsumerIds : ConsumerInstance("B", i)

SpecRace == InitRace /\ [][NextRace]_vars

(* A's Publisher and B's Consumer with panics among the failures. *)
NextPanic ==
    \/ Write("A")
    \/ Publisher("A", 1)
    \/ PublishPanics("A", 1)
    \/ ConsumerOfRemote("B")
    \/ \E pt \in Partitions : ApplyEventPanics("B", pt)

SpecPanic == Init /\ [][NextPanic]_vars

(* The same direction on a topic that also receives payloads that are not
   event documents, and event documents with an unknown operation. *)
NextParse ==
    \/ Write("A")
    \/ Publisher("A", 1)
    \/ \E pt \in Partitions : ProduceMalformed(pt)
    \/ \E pt \in Partitions : ProduceUnknownOperation(pt)
    \/ ConsumerOfRemote("B")
    \/ \E pt \in Partitions : ParseFails("B", pt)

SpecParse == Init /\ [][NextParse]_vars

(* ------------------------------ properties ---------------------------- *)
(* The primary key of the business row a queue row was captured from. *)
CapturedKey(row) ==
    IF row.operation = "UPDATE" THEN row.record_data.after.id ELSE row.record_data.id

(* Indices of the bus messages built from queue row id of contour c. *)
MessagesOf(c, id) == {j \in 1 .. Len(bus) : bus[j].from = c /\ bus[j].qid = id}

FirstPublished(c, id) == CHOOSE j \in MessagesOf(c, id) : \A i \in MessagesOf(c, id) : j <= i

DmlKind(old, new) ==
    IF ~old.present THEN "INSERT" ELSE IF new.present THEN "UPDATE" ELSE "DELETE"

Image(k, old, new) ==
    IF ~old.present THEN row_to_json(k, new)
    ELSE IF new.present THEN [before |-> row_to_json(k, old), after |-> row_to_json(k, new)]
    ELSE row_to_json(k, old)

(* C3: every statement a local writer commits on the business table adds, in
   the same step, exactly one replication_queue row, unpublished, whose
   operation is the kind of the statement and whose payload is the row image
   (post-image on INSERT, pre- and post-image on UPDATE, pre-image on
   DELETE); the rows already queued are untouched. *)
C3_LocalDmlIsCaptured ==
    [][\A c \in Contours : \A k \in Keys :
          (writes' # writes /\ tbl'[c][k] # tbl[c][k]) =>
              /\ Len(queue'[c]) = Len(queue[c]) + 1
              /\ SubSeq(queue'[c], 1, Len(queue[c])) = queue[c]
              /\ LET r == queue'[c][Len(queue'[c])]
                 IN  /\ r.operation = DmlKind(tbl[c][k], tbl'[c][k])
                     /\ r.published = FALSE
                     /\ r.record_data = Image(k, tbl[c][k], tbl'[c][k])]_vars

(* A local DELETE has been captured and is waiting for the Publisher. *)
C3_Witness ==
    \E c \in Contours : \E i \in 1 .. Len(queue[c]) :
        /\ queue[c][i].operation = "DELETE"
        /\ ~queue[c][i].published
        /\ writes < MaxWrites

(* C4: under fair scheduling of the Publisher loops, every queue row that is
   unpublished is eventually published on the bus and marked published,
   whatever (bounded) failures hit the batches in between. *)
C4_EveryRowIsEventuallyPublished ==
    \A i \in 1 .. MaxPubWrites :
        (i \in DOMAIN queue["A"] /\ ~queue["A"][i].published)
            ~> (i \in DOMAIN queue["A"] /\ queue["A"][i].published
                                         /\ MessagesOf("A", i) # {})

(* Every row is marked published although a fault hit the Publisher. *)
C4_Witness ==
    /\ faults < MaxFaults
    /\ Len(queue["A"]) >= 2
    /\ \A i \in 1 .. Len(queue["A"]) : queue["A"][i].published

(* C5: a queue row is marked published only if a message built from that row
   is in the bus log, i.e. Produce returned without error for it before the
   drain transaction committed. *)
C5_PublishedOnlyAfterAccepted ==
    \A c \in Contours : \A i \in 1 .. Len(queue[c]) :
        queue[c][i].published =>
            \E j \in MessagesOf(c, i) :
                /\ bus[j].value["operation"] = queue[c][i].operation
                /\ bus[j].value["source"].contour = c

(* A row is marked published while a later row is still waiting. *)
C5_Witness ==
    \E i, j \in 1 .. Len(queue["A"]) :
        queue["A"][i].published /\ ~queue["A"][j].published

(* C6: when a drain ends in a failure (Produce, the flag update or the commit
   fails, or the Publisher crashes), the queue is exactly as before, none of
   the leased rows is published, none is locked any more, and a later leasing
   SELECT by any instance finds them again. *)
C6_FailedDrainRollsBack ==
    [][\A c \in Contours : \A p \in PublisherIds :
          (pub[c][p].pc = "publishing" /\ pub'[c][p].pc # "publishing" /\ faults' # faults) =>
              /\ queue'[c] = queue[c]
              /\ \A id \in SeqToSet(pub[c][p].records) :
                    /\ ~queue'[c][id].published
                    /\ \A q \in PublisherIds : id \notin SeqToSet(pub'[c][q].records)
                    /\ id \in SeqToSet(SelectForUpdateSkipLocked(
                                 queue'[c],
                                 UNION {SeqToSet(pub'[c][q].records) : q \in PublisherIds},
                                 Len(queue'[c])))]_vars

(* A drain failed after the bus accepted a message: the row is unpublished,
   unlocked, and its message is in the log. *)
C6_Witness ==
    \E i \in 1 .. Len(queue["A"]) :
        /\ faults < MaxFaults
        /\ ~queue["A"][i].published
        /\ MessagesOf("A", i) # {}
        /\ i \notin Locked("A")

(* C7: no queue row is leased by two drain transactions at the same time. *)
C7_LeasesAreDisjoint ==
    \A c \in Contours : \A p, q \in PublisherIds :
        p # q => SeqToSet(pub[c][p].records) \cap SeqToSet(pub[c][q].records) = {}

(* Two instances hold leases at the same time. *)
C7_Witness ==
    \A p \in PublisherIds : pub["A"][p].pc = "publishing" /\ pub["A"][p].records # <<>>

(* C8: per-key FIFO on the bus: a change of a key is never first published
   before a change of the same key with a lower queue id. *)
C8_PerKeyFifoOnBus ==
    \A c \in Contours : \A i, j \in 1 .. Len(queue[c]) :
        (i < j /\ CapturedKey(queue[c][i]) = CapturedKey(queue[c][j])
               /\ MessagesOf(c, j) # {}) =>
            /\ MessagesOf(c, i) # {}
            /\ FirstPublished(c, i) < FirstPublished(c, j)

(* C9: every message is keyed by the string form of the primary key of the
   row its queue row was captured from. *)
C9_KeyIsPrimaryKey ==
    \A j \in 1 .. Len(bus) :
        bus[j].key = Sprintf_v(CapturedKey(queue[bus[j].from][bus[j].qid]))

(* The event the Consumer of contour c has in hand, or polls next from pt. *)
EventInHand(c) == Unmarshal(MessageAt(cons[c].partition, cons[c].offset).value)
NextEvent(c, pt) == Unmarshal(MessageAt(pt, position[c][pt]).value)

(* The step is processMessage of contour c taking a message of partition pt. *)
Takes(c, pt) ==
    /\ cons[c].pc = "poll"
    /\ Lag(c, pt)
    /\ position'[c][pt] = position[c][pt] + 1

(* C1: once the ledger of a contour holds an event id, a later delivery of
   a message with that event id changes neither the business table, nor the
   queue, nor the ledger of the contour (the ledger keeps its single entry),
   and unless a database call fails the message goes on to be committed. *)
C1_RedeliveryIsNoOp ==
    [][\A c \in Contours : \A pt \in Partitions :
          (Takes(c, pt) /\ shouldProcess(c, NextEvent(c, pt))
                        /\ NextEvent(c, pt).event_id \in ledger[c]) =>
              /\ tbl'[c] = tbl[c]
              /\ queue'[c] = queue[c]
              /\ ledger'[c] = ledger[c]
              /\ (faults' = faults => cons'[c].pc = "commit" /\ cons'[c].seen)]_vars

(* A redelivered event was found in the ledger although applying it again
   would have overwritten the local row. *)
C1_Witness ==
    \E c \in Contours : \E k \in Keys :
        /\ cons[c].pc = "commit"
        /\ cons[c].seen
        /\ EventInHand(c).operation = "INSERT"
        /\ tbl[c][k].present
        /\ GetPrimaryKeyValue(EventInHand(c)) = k
        /\ GetVersion(EventInHand(c)) > tbl[c][k].version

(* C2: applying a remote event adds no row to the local replication_queue. *)
C2_ConsumerWritesAreNotCaptured ==
    [][\A c \in Contours : \A pt \in Partitions :
          Takes(c, pt) => queue'[c] = queue[c]]_vars

(* C10: the Consumer commits the offset of an own-origin event without a
   transaction, and of any other event only when its event id is in the
   ledger, i.e. after the applying transaction committed (or an earlier one
   did); a processMessage call whose applyEvent fails commits no offset and
   returns to polling. *)
C10_AckOnlyAfterCommit ==
    [][\A c \in Contours :
          /\ (committed'[c] # committed[c]) =>
                /\ cons[c].pc = "commit"
                /\ committed'[c][cons[c].partition] = cons[c].offset + 1
                /\ \/ ~shouldProcess(c, EventInHand(c))
                   \/ cons[c].applied /\ EventInHand(c).event_id \in ledger[c]
          /\ \A pt \in Partitions :
                (Takes(c, pt) /\ shouldProcess(c, NextEvent(c, pt))
                              /\ NextEvent(c, pt).event_id \notin ledger'[c]) =>
                    /\ committed'[c] = committed[c]
                    /\ cons'[c].pc = "poll"
                    /\ tbl'[c] = tbl[c]
                    /\ metrics'[c].failedCount = metrics[c].failedCount + 1]_vars

(* An applied event is committed on the bus, and another apply has failed. *)
C10_Witness ==
    \E c \in Contours : \E pt \in Partitions :
        /\ committed[c][pt] > 0
        /\ shouldProcess(c, Unmarshal(MessageAt(pt, committed[c][pt] - 1).value))
        /\ Unmarshal(MessageAt(pt, committed[c][pt] - 1).value).event_id \in ledger[c]
        /\ metrics[c].failedCount > 0

(* The event of the message at offset off of partition pt. *)
EventAt(pt, off) == Unmarshal(MessageAt(pt, off).value)

(* C11: the committed offset of a partition never passes a message of the
   other contour whose event id is not in the ledger, i.e. a message whose
   apply failed stays at or after the committed offset until it has been
   applied, also when later messages of the partition are processed. *)
C11_FailedMessageIsNotSkipped ==
    \A c \in Contours : \A pt \in Partitions :
        \A off \in 0 .. (committed[c][pt] - 1) :
            shouldProcess(c, EventAt(pt, off)) => EventAt(pt, off).event_id \in ledger[c]

(* C12: for two events of the same primary key in one partition, the later
   one is never in the ledger (its transaction committed) while the earlier
   one is not. *)
C12_CommitOrderIsOffsetOrder ==
    \A c \in Contours : \A pt \in Partitions :
        \A o1, o2 \in 0 .. (Len(PartitionLog(pt)) - 1) :
            (/\ o1 < o2
             /\ shouldProcess(c, EventAt(pt, o1))
             /\ shouldProcess(c, EventAt(pt, o2))
             /\ GetPrimaryKeyValue(EventAt(pt, o1)) # SqlNull
             /\ GetPrimaryKeyValue(EventAt(pt, o1)) = GetPrimaryKeyValue(EventAt(pt, o2))
             /\ EventAt(pt, o2).event_id \in ledger[c])
                => EventAt(pt, o1).event_id \in ledger[c]

(* Both outboxes are drained and both Consumers have processed and committed
   every message of the bus (the events of the other contour are in the
   ledger) and are back at Poll. *)
Quiescent ==
    \A c \in Contours :
        /\ \A i \in 1 .. Len(queue[c]) : queue[c][i].published
        /\ pub[c][1].pc = "idle"
        /\ cons[c].pc = "poll"
        /\ \A pt \in Partitions :
              /\ position[c][pt] = Len(PartitionLog(pt))
              /\ committed[c][pt] = Len(PartitionLog(pt))
              /\ \A off \in 0 .. (Len(PartitionLog(pt)) - 1) :
                    shouldProcess(c, EventAt(pt, off)) =>
                        EventAt(pt, off).event_id \in ledger[c]

(* C13: convergence: whenever both contours are quiescent, every key present
   on either contour is present on both with the same version and
   updated_by. *)
C13_QuiescentContoursAgree ==
    Quiescent =>
        \A k \in Keys :
            (tbl["A"][k].present \/ tbl["B"][k].present) => tbl["A"][k] = tbl["B"][k]

(* The row image after the change that message m was built from, as the
   trigger captured it. *)
PostImage(m) ==
    LET row == queue[m.from][m.qid]
    IN  IF row.operation = "UPDATE" THEN row.record_data.after ELSE row.record_data

(* The step is a processMessage call of contour c that takes from pt an
   event of the other contour not yet in the ledger, with no database or
   bus fault. *)
TakesFresh(c, pt) ==
    /\ Takes(c, pt)
    /\ ~UnmarshalFails(MessageAt(pt, position[c][pt]).value)
    /\ faults' = faults
    /\ shouldProcess(c, NextEvent(c, pt))
    /\ NextEvent(c, pt).event_id \notin ledger[c]

(* The message is handed to Commit with its event id recorded. *)
Completes(c, pt) ==
    /\ cons'[c].pc = "commit"
    /\ cons'[c].applied
    /\ NextEvent(c, pt).event_id \in ledger'[c]

(* C14: under last_write_wins, an INSERT or UPDATE event that finds its row
   present overwrites it with the post-image exactly when the post-image's
   version is greater than the existing one; otherwise the row is unchanged;
   in both cases the message completes. *)
C14_LastWriteWins ==
    [][\A c \in Contours : \A pt \in Partitions :
          (/\ policy = "last_write_wins"
           /\ TakesFresh(c, pt)
           /\ NextEvent(c, pt).operation \in {"INSERT", "UPDATE"}
           /\ tbl[c][PostImage(MessageAt(pt, position[c][pt])).id].present) =>
              LET img == PostImage(MessageAt(pt, position[c][pt]))
              IN  /\ tbl'[c][img.id] =
                        IF img.version > tbl[c][img.id].version
                        THEN Row(img.version, img.updated_by)
                        ELSE tbl[c][img.id]
                  /\ Completes(c, pt)]_vars

(* C15: an INSERT event whose key is absent locally creates the row with the
   version and columns of the post-image, and the message completes. *)
C15_InsertOfAbsentKeyCreatesRow ==
    [][\A c \in Contours : \A pt \in Partitions :
          (/\ TakesFresh(c, pt)
           /\ NextEvent(c, pt).operation = "INSERT"
           /\ ~tbl[c][PostImage(MessageAt(pt, position[c][pt])).id].present) =>
              LET img == PostImage(MessageAt(pt, position[c][pt]))
              IN  /\ tbl'[c][img.id] = Row(img.version, img.updated_by)
                  /\ Completes(c, pt)]_vars

(* C16: an UPDATE event whose key is absent locally creates the row from the
   post-image with the post-image's version; a later INSERT event of the key
   with a lower version leaves the row as it is under last_write_wins. *)
C16_UpdateOfAbsentKeyCreatesRow ==
    [][\A c \in Contours : \A pt \in Partitions :
          /\ (/\ TakesFresh(c, pt)
               /\ NextEvent(c, pt).operation = "UPDATE"
               /\ ~tbl[c][PostImage(MessageAt(pt, position[c][pt])).id].present) =>
                  LET img == PostImage(MessageAt(pt, position[c][pt]))
                  IN  /\ tbl'[c][img.id] = Row(img.version, img.updated_by)
                      /\ Completes(c, pt)
          /\ (/\ policy = "last_write_wins"
               /\ TakesFresh(c, pt)
               /\ NextEvent(c, pt).operation = "INSERT"
               /\ tbl[c][PostImage(MessageAt(pt, position[c][pt])).id].present
               /\ PostImage(MessageAt(pt, position[c][pt])).version
                     < tbl[c][PostImage(MessageAt(pt, position[c][pt])).id].version) =>
                  /\ tbl'[c] = tbl[c]
                  /\ Completes(c, pt)]_vars

(* The primary key of the row whose change message m was built from. *)
KeyOf(m) == CapturedKey(queue[m.from][m.qid])

(* C17: a DELETE event removes its row when present, whatever the versions,
   and changes neither table nor queue when the row is absent; no other row
   is touched, and in both cases the event id is recorded and the message
   handed to Commit. *)
C17_DeleteIsUnconditional ==
    [][\A c \in Contours : \A pt \in Partitions :
          (TakesFresh(c, pt) /\ NextEvent(c, pt).operation = "DELETE") =>
              LET k == KeyOf(MessageAt(pt, position[c][pt]))
              IN  /\ tbl'[c] = [tbl[c] EXCEPT ![k] = Absent]
                  /\ ~tbl[c][k].present => queue'[c] = queue[c]
                  /\ Completes(c, pt)]_vars

(* A DELETE event has removed a local row whose version was higher than the
   version in the event's pre-image (the removed row is the last capture in
   the local queue). *)
C17_Witness ==
    \E c \in Contours :
        /\ cons[c].pc = "commit"
        /\ cons[c].applied
        /\ ~cons[c].seen
        /\ EventInHand(c).operation = "DELETE"
        /\ ~tbl[c][GetPrimaryKeyValue(EventInHand(c))].present
        /\ queue[c] # <<>>
        /\ queue[c][Len(queue[c])].operation = "DELETE"
        /\ queue[c][Len(queue[c])].record_data.version > EventInHand(c).before.version

(* The event polled next from pt is in conflict with the local row: an
   INSERT event whose key is present, or an UPDATE event whose key is present
   with a version not lower than the post-image's. *)
IsConflict(c, pt) ==
    LET img == PostImage(MessageAt(pt, position[c][pt]))
    IN  /\ NextEvent(c, pt).operation \in {"INSERT", "UPDATE"}
        /\ tbl[c][img.id].present
        /\ \/ NextEvent(c, pt).operation = "INSERT"
           \/ tbl[c][img.id].version >= img.version

(* C18: under policy skip a conflicting event changes neither the business
   table nor the queue of the contour, whatever the two versions, and the
   message completes. *)
C18_SkipNeverOverwrites ==
    [][\A c \in Contours : \A pt \in Partitions :
          (policy = "skip" /\ TakesFresh(c, pt) /\ IsConflict(c, pt)) =>
              /\ tbl'[c] = tbl[c]
              /\ queue'[c] = queue[c]
              /\ Completes(c, pt)]_vars

(* Under skip an INSERT event with a higher version than the local row was
   completed and the row still has its lower version. *)
C18_Witness ==
    \E c \in Contours :
        /\ policy = "skip"
        /\ cons[c].pc = "commit"
        /\ cons[c].applied
        /\ ~cons[c].seen
        /\ EventInHand(c).operation = "INSERT"
        /\ tbl[c][GetPrimaryKeyValue(EventInHand(c))].present
        /\ tbl[c][GetPrimaryKeyValue(EventInHand(c))].version < GetVersion(EventInHand(c))

(* C19: under policy error a conflicting event makes the processMessage call
   fail: table, queue and ledger of the contour are unchanged, no offset is
   committed, the Consumer is back at Poll and failedCount grew by one. *)
C19_ErrorFailsOnConflict ==
    [][\A c \in Contours : \A pt \in Partitions :
          (policy = "error" /\ TakesFresh(c, pt) /\ IsConflict(c, pt)) =>
              /\ tbl'[c] = tbl[c]
              /\ queue'[c] = queue[c]
              /\ ledger'[c] = ledger[c]
              /\ committed'[c] = committed[c]
              /\ cons'[c].pc = "poll"
              /\ metrics'[c].failedCount = metrics[c].failedCount + 1]_vars

(* Under error an INSERT event for a key whose row on B was never touched
   (nothing was captured on B) has been taken and is neither committed nor
   in the ledger, and more failures were counted than faults occurred. *)
C19_Witness ==
    \E pt \in Partitions : \E off \in 0 .. (Len(PartitionLog(pt)) - 1) :
        /\ policy = "error"
        /\ queue["B"] = <<>>
        /\ committed["B"][pt] <= off
        /\ off < position["B"][pt]
        /\ EventAt(pt, off).operation = "INSERT"
        /\ tbl["B"][GetPrimaryKeyValue(EventAt(pt, off))].present
        /\ EventAt(pt, off).event_id \notin ledger["B"]
        /\ metrics["B"].failedCount > MaxFaults - faults

(* C20: a processMessage call that takes a payload that does not parse, the
   bus accepting the commit, commits offset + 1 of that message, adds one to
   failedCount and to no other counter, changes no table, queue or ledger,
   and leaves the Consumer at Poll with its position on the next message. *)
C20_MalformedIsAcknowledged ==
    [][\A c \in Contours : \A pt \in Partitions :
          (/\ Takes(c, pt)
           /\ UnmarshalFails(MessageAt(pt, position[c][pt]).value)
           /\ faults' = faults) =>
              /\ committed'[c][pt] = position[c][pt] + 1
              /\ metrics'[c] = [metrics[c] EXCEPT !.failedCount = @ + 1]
              /\ dbVars' = dbVars
              /\ cons'[c].pc = "poll"]_vars

(* A payload that does not parse was committed and counted, and an event
   behind it in the same partition has since been applied. *)
C20_Witness ==
    \E pt \in Partitions : \E o1, o2 \in 0 .. (Len(PartitionLog(pt)) - 1) :
        /\ o1 < o2
        /\ UnmarshalFails(MessageAt(pt, o1).value)
        /\ ~UnmarshalFails(MessageAt(pt, o2).value)
        /\ EventAt(pt, o2).event_id \in ledger["B"]
        /\ committed["B"][pt] > o2
        /\ metrics["B"].failedCount = 1

(* C21: a well-formed event of the other contour whose operation is not
   INSERT, UPDATE or DELETE is counted in failedCount and its offset is
   committed by the processMessage call that takes it. *)
C21_UnknownOperationIsAcknowledged ==
    [][\A c \in Contours : \A pt \in Partitions :
          (/\ TakesFresh(c, pt)
           /\ NextEvent(c, pt).operation \notin {"INSERT", "UPDATE", "DELETE"}) =>
              /\ metrics'[c].failedCount = metrics[c].failedCount + 1
              /\ committed'[c][pt] = position[c][pt] + 1]_vars

(* C22: the processMessage call that takes an event of its own contour
   changes neither table, queue nor ledger, adds one to skippedCount only and
   hands the message to Commit; the Commit step stores its offset + 1 and
   changes nothing else of the contour. *)
C22_OwnEventIsSkippedWithoutTransaction ==
    [][\A c \in Contours :
          /\ \A pt \in Partitions :
                (Takes(c, pt) /\ NextEvent(c, pt).source.contour = c) =>
                    /\ tbl'[c] = tbl[c]
                    /\ queue'[c] = queue[c]
                    /\ ledger'[c] = ledger[c]
                    /\ metrics'[c] = [metrics[c] EXCEPT !.skippedCount = @ + 1]
                    /\ cons'[c].pc = "commit"
                    /\ ~cons'[c].applied
          /\ (/\ cons[c].pc = "commit"
               /\ EventInHand(c).source.contour = c
               /\ cons'[c].pc = "poll"
               /\ faults' = faults) =>
                  /\ committed'[c][cons[c].partition] = cons[c].offset + 1
                  /\ tbl'[c] = tbl[c]
                  /\ queue'[c] = queue[c]
                  /\ ledger'[c] = ledger[c]
                  /\ metrics'[c] = metrics[c]]_vars

(* An event of contour B has been skipped by B's Consumer and its offset is
   committed, while B's ledger is still empty. *)
C22_Witness ==
    \E pt \in Partitions :
        /\ committed["B"][pt] > 0
        /\ EventAt(pt, committed["B"][pt] - 1).source.contour = "B"
        /\ metrics["B"].skippedCount > 0
        /\ ledger["B"] = {}
        /\ cons["B"].pc = "poll"

(* C23: a redelivered event found in the ledger changes neither table, queue
   nor ledger; its message is committed, and over the take and the commit the
   skipped counter grows by one while the processed counter stays. *)
C23_RedeliveryCountsAsSkipped ==
    [][\A c \in Contours :
          /\ \A pt \in Partitions :
                (/\ Takes(c, pt)
                 /\ faults' = faults
                 /\ shouldProcess(c, NextEvent(c, pt))
                 /\ NextEvent(c, pt).event_id \in ledger[c]) =>
                    /\ tbl'[c] = tbl[c]
                    /\ queue'[c] = queue[c]
                    /\ ledger'[c] = ledger[c]
                    /\ cons'[c].pc = "commit"
                    /\ metrics'[c].processedCount = metrics[c].processedCount
          /\ (/\ cons[c].pc = "commit"
               /\ cons[c].seen
               /\ cons'[c].pc = "poll"
               /\ faults' = faults) =>
                  /\ committed'[c][cons[c].partition] = cons[c].offset + 1
                  /\ metrics'[c].processedCount = metrics[c].processedCount
                  /\ metrics'[c].skippedCount = metrics[c].skippedCount + 1]_vars

(* C24: under last_write_wins, an UPDATE event of the other contour whose
   post-image has the version the local row was updated to leaves the local
   row as it is and completes without an error, and when its message is
   committed the skipped counter has grown by one for it. *)
C24_CrossedEqualVersionUpdatesAreSkipped ==
    [][\A c \in Contours :
          /\ \A pt \in Partitions :
                (/\ policy = "last_write_wins"
                 /\ TakesFresh(c, pt)
                 /\ NextEvent(c, pt).operation = "UPDATE"
                 /\ tbl[c][PostImage(MessageAt(pt, position[c][pt])).id].present
                 /\ tbl[c][PostImage(MessageAt(pt, position[c][pt])).id].version =
                        PostImage(MessageAt(pt, position[c][pt])).version) =>
                    /\ tbl'[c] = tbl[c]
                    /\ Completes(c, pt)
                    /\ metrics'[c].failedCount = metrics[c].failedCount
          /\ (/\ policy = "last_write_wins"
               /\ cons[c].pc = "commit"
               /\ cons[c].applied
               /\ ~cons[c].seen
               /\ EventInHand(c).operation = "UPDATE"
               /\ LET img == PostImage(MessageAt(cons[c].partition, cons[c].offset))
                  IN  /\ tbl[c][img.id].present
                      /\ tbl[c][img.id].version = img.version
                      /\ tbl[c][img.id].updated_by = c
               /\ cons'[c].pc = "poll"
               /\ faults' = faults) =>
                  /\ metrics'[c].skippedCount = metrics[c].skippedCount + 1
                  /\ metrics'[c].processedCount = metrics[c].processedCount]_vars

(* The versions row k of contour c went through, one per committed
   statement: the trigger's post-image of an INSERT or UPDATE, its pre-image
   of a DELETE. *)
VersionAt(row) ==
    IF row.operation = "UPDATE" THEN row.record_data.after.version
    ELSE row.record_data.version

(* A's statements were INSERT, UPDATE, UPDATE, DELETE and B has applied an
   event of each. *)
HistoryReplayed ==
    /\ [i \in 1 .. Len(queue["A"]) |-> queue["A"][i].operation] = History
    /\ \A i \in 1 .. Len(History) : \E j \in MessagesOf("A", i) :
          Unmarshal(bus[j].value).event_id \in ledger["B"]

(* C25: once B has applied the events of A's INSERT, UPDATE, UPDATE, DELETE
   of a key, in capture order or any other the partitions allow, the row is
   absent on B; and the versions of the states B's row went through, one per
   committed statement, never decrease, redelivered and republished events
   included. *)
C25_HistoryEndsAbsentWithoutRegression ==
    /\ HistoryReplayed => \A k \in Keys : ~tbl["B"][k].present
    /\ \A i, j \in 1 .. Len(queue["B"]) :
          i < j => VersionAt(queue["B"][i]) <= VersionAt(queue["B"][j])
    /\ \A i \in 1 .. Len(queue["B"]) : \A k \in Keys :
          tbl["B"][k].present => VersionAt(queue["B"][i]) <= tbl["B"][k].version

(* B held a row of its own, A's INSERT event was applied to it twice (once
   republished), and A's DELETE event removed it. *)
C25_Witness ==
    /\ HistoryReplayed
    /\ Len(queue["B"]) >= 3
    /\ queue["B"][Len(queue["B"])].operation = "DELETE"
    /\ \A k \in Keys : ~tbl["B"][k].present
    /\ cons["B"].pc = "poll"
    /\ \A pt \in Partitions : committed["B"][pt] = Len(PartitionLog(pt))

(* The DELETE events of key k that contour c has applied. *)
AppliedDeletes(c, k) ==
    {j \in 1 .. Len(bus) :
        /\ ~UnmarshalFails(bus[j].value)
        /\ Unmarshal(bus[j].value).operation = "DELETE"
        /\ GetPrimaryKeyValue(Unmarshal(bus[j].value)) = k
        /\ Unmarshal(bus[j].value).event_id \in ledger[c]}

(* C26: after the Consumer has applied a DELETE event for a key, an INSERT
   event for that key with a higher version that finds the row absent leaves
   the row present with the version and columns of its post-image, and the
   message completes. *)
C26_InsertAfterDeleteRestoresRow ==
    [][\A c \in Contours : \A pt \in Partitions :
          (/\ TakesFresh(c, pt)
           /\ NextEvent(c, pt).operation = "INSERT"
           /\ ~tbl[c][PostImage(MessageAt(pt, position[c][pt])).id].present
           /\ \E j \in AppliedDeletes(c, PostImage(MessageAt(pt, position[c][pt])).id) :
                 GetVersion(Unmarshal(bus[j].value)) <
                     PostImage(MessageAt(pt, position[c][pt])).version) =>
              LET img == PostImage(MessageAt(pt, position[c][pt]))
              IN  /\ tbl'[c][img.id] = Row(img.version, img.updated_by)
                  /\ Completes(c, pt)]_vars

(* The message at offset off of partition pt was built from a queue row of
   which contour c has already applied another message. *)
IsDuplicate(c, pt, off) ==
    LET m == MessageAt(pt, off)
    IN  \E j \in MessagesOf(m.from, m.qid) :
          /\ bus[j] # m
          /\ Unmarshal(bus[j].value).event_id \in ledger[c]

(* C27: when a queue row was published twice, the second of its messages a
   contour consumes changes nothing there: the business table and the queue
   of the contour stay as they were after the first, so the applied changes
   and the final row are those of a single publication. *)
C27_PublishingTwiceIsPublishingOnce ==
    [][\A c \in Contours : \A pt \in Partitions :
          (/\ Takes(c, pt)
           /\ shouldProcess(c, NextEvent(c, pt))
           /\ IsDuplicate(c, pt, position[c][pt])) =>
              /\ tbl'[c] = tbl[c]
              /\ queue'[c] = queue[c]]_vars

(* C28: every event document on the bus carries the images of the change
   its queue row captured: an INSERT event only after (the post-image), an
   UPDATE event before (the pre-image) and after (the post-image, with the
   new version), a DELETE event only before (the pre-image); and primary_key
   holds the id of the row in all three. *)
C28_EventImagesByOperation ==
    \A j \in 1 .. Len(bus) :
        LET row == queue[bus[j].from][bus[j].qid]
            doc == bus[j].value
        IN  /\ doc.operation = row.operation
            /\ doc.primary_key = [id |-> CapturedKey(row)]
            /\ doc.operation = "INSERT" =>
                  /\ "before" \notin DOMAIN doc
                  /\ "after" \in DOMAIN doc /\ doc.after = row.record_data
            /\ doc.operation = "UPDATE" =>
                  /\ "before" \in DOMAIN doc /\ doc.before = row.record_data.before
                  /\ "after" \in DOMAIN doc /\ doc.after = row.record_data.after
            /\ doc.operation = "DELETE" =>
                  /\ "after" \notin DOMAIN doc
                  /\ "before" \in DOMAIN doc /\ doc.before = row.record_data

(* C29: a Consumer that has entered its loop has a configuration with the
   session identity and at least one topic, and every event recorded in the
   ledger was applied over a session that declares the identity. *)
C29_NoStartWithoutIdentityOrTopics ==
    \A c \in Contours :
        /\ cons[c].pc \in {"poll", "commit"} =>
              /\ config.application_name # ""
              /\ Len(config.topics) > 0
        /\ ledger[c] # {} => ConsumerSession.application_name = ApplicationName

(* C30: a Publisher that stops on a shutdown signal inside a drain in which
   the bus has already accepted messages leaves the rows of those messages
   marked published (the batch is committed), and a Consumer that stops
   having taken a message of the other contour has recorded its event in the
   ledger (the apply transaction is committed). *)
C30_ShutdownCompletesWorkInFlight ==
    [][\A c \in Contours :
          /\ \A p \in PublisherIds :
                (/\ pub[c][p].pc = "publishing"
                 /\ pub[c][p].publishedIDs # <<>>
                 /\ pub'[c][p].pc = "stopped") =>
                    \A id \in SeqToSet(pub[c][p].publishedIDs) : queue'[c][id].published
          /\ \A pt \in Partitions :
                (/\ Takes(c, pt)
                 /\ shouldProcess(c, NextEvent(c, pt))
                 /\ cons'[c].pc = "stopped") =>
                    NextEvent(c, pt).event_id \in ledger'[c]]_vars

(* The ids of the rows of contour c that exist before the step and not after. *)
Removed(c) ==
    {i \in 1 .. Len(queue[c]) : ~IsDeleted(queue[c][i]) /\ IsDeleted(queue'[c][i])}

(* C31: every row the janitor removes was published (it has a message on
   the bus) and is older than the retention window it was called with, and
   the rows removed in one call are all the rows of that kind; an unpublished
   row is never removed. *)
C31_JanitorRemovesOnlyOldPublishedRows ==
    [][\A c \in Contours :
          Removed(c) # {} =>
              /\ \A i \in Removed(c) :
                    /\ queue[c][i].published
                    /\ MessagesOf(c, i) # {}
              /\ \E r \in Retentions :
                    Removed(c) =
                        {i \in 1 .. Len(queue[c]) :
                            /\ ~IsDeleted(queue[c][i])
                            /\ queue[c][i].published
                            /\ queue[c][i].created_at < now - r}]_vars

(* The janitor has removed a published row while an unpublished row just as
   old is still in the queue. *)
C31_Witness ==
    \E c \in Contours : \E i, j \in 1 .. Len(queue[c]) :
        /\ IsDeleted(queue[c][i])
        /\ ~IsDeleted(queue[c][j])
        /\ ~queue[c][j].published
        /\ queue[c][j].created_at < now

(* C32: a local INSERT stores the supplied version, or 1 when none is
   supplied; a local UPDATE stores the previous version plus one whatever the
   writer supplied; and every row's version is greater than zero. *)
C32_VersionStamping ==
    /\ [][\A c \in Contours : \A k \in Keys :
            (writes' # writes /\ tbl'[c][k].present /\ tbl'[c][k] # tbl[c][k]) =>
                IF tbl[c][k].present
                THEN tbl'[c][k].version = tbl[c][k].version + 1
                ELSE tbl'[c][k].version \in {1} \cup (SuppliedVersions \ {SqlNull})]_vars
    /\ [](\A c \in Contours : \A k \in Keys : tbl[c][k].present => tbl[c][k].version > 0)

(* C33: when the Consumer's apply of an INSERT or UPDATE event changes a row
   that existed, the row it commits has the version of the event's
   post-image, the version the row has on the contour of origin. *)
C33_OverwriteStoresIncomingVersion ==
    [][\A c \in Contours : \A pt \in Partitions :
          (/\ TakesFresh(c, pt)
           /\ NextEvent(c, pt).operation \in {"INSERT", "UPDATE"}
           /\ tbl[c][PostImage(MessageAt(pt, position[c][pt])).id].present
           /\ tbl'[c] # tbl[c]) =>
              LET img == PostImage(MessageAt(pt, position[c][pt]))
              IN  /\ tbl'[c][img.id].present
                  /\ tbl'[c][img.id].version = img.version]_vars

(* The queue rows of contour c a leasing SELECT of instance p may take. *)
Leasable(c, p) ==
    {i \in 1 .. Len(queue[c]) :
        /\ ~queue[c][i].published
        /\ \A q \in PublisherIds \ {p} : i \notin SeqToSet(pub[c][q].records)}

(* C34: a drain leases at most BatchSize rows, the lowest ids among the
   unpublished rows no other drain has locked, in ascending order; each
   Produce of the drain appends to the bus the message of the next leased
   row, so the rows go out in ascending id; and when a Produce fails nothing
   more of the batch is published. *)
C34_BatchIsAscendingPrefix ==
    [][\A c \in Contours : \A p \in PublisherIds :
          /\ (pub[c][p].pc = "idle" /\ pub'[c][p].pc = "publishing") =>
                LET records == pub'[c][p].records
                IN  /\ Len(records) <= BatchSize
                    /\ \A a, b \in 1 .. Len(records) : a < b => records[a] < records[b]
                    /\ SeqToSet(records) \subseteq Leasable(c, p)
                    /\ \A i \in Leasable(c, p) \ SeqToSet(records) :
                          /\ Len(records) = BatchSize
                          /\ \A a \in 1 .. Len(records) : records[a] < i
          /\ (pub[c][p].pc = "publishing"
               /\ pub'[c][p].publishedIDs # pub[c][p].publishedIDs
               /\ pub'[c][p].pc = "publishing") =>
                LET n == Len(pub[c][p].publishedIDs) + 1
                IN  /\ pub'[c][p].records = pub[c][p].records
                    /\ pub'[c][p].publishedIDs = SubSeq(pub[c][p].records, 1, n)
                    /\ Len(bus') = Len(bus) + 1
                    /\ SubSeq(bus', 1, Len(bus)) = bus
                    /\ bus'[Len(bus')].from = c
                    /\ bus'[Len(bus')].qid = pub[c][p].records[n]
          /\ (pub[c][p].pc = "publishing"
               /\ Len(pub[c][p].publishedIDs) < Len(pub[c][p].records)
               /\ pub'[c][p].pc # "publishing") =>
                /\ bus' = bus
                /\ queue' = queue
                /\ pub'[c][p] = Idle]_vars

(* A drain holds a full batch, has published its first row and not yet its
   second, and a third unpublished row was left for a later drain. *)
C34_Witness ==
    \E c \in Contours : \E p \in PublisherIds :
        /\ pub[c][p].pc = "publishing"
        /\ Len(pub[c][p].records) = BatchSize
        /\ Len(pub[c][p].publishedIDs) = 1
        /\ \E i \in 1 .. Len(queue[c]) :
              /\ ~queue[c][i].published
              /\ i \notin Locked(c)
              /\ i > pub[c][p].records[BatchSize]

(* processed + skipped + failed of the Consumer of contour c. *)
Handled(c) ==
    metrics[c].processedCount + metrics[c].skippedCount + metrics[c].failedCount

(* C35: every message Poll returns adds one to exactly one counter, and a
   poll error adds one to failed: a processMessage call that ends when it
   has taken the message adds one; a call that goes on to Commit has added
   one already if it skipped the event and adds one at its end otherwise;
   and nothing else changes a counter, except that a restarted process
   starts from zero. *)
C35_OneCounterPerMessage ==
    [][\A c \in Contours :
          LET total == Handled(c)
              total_ == metrics'[c].processedCount + metrics'[c].skippedCount
                            + metrics'[c].failedCount
          IN  /\ \A pt \in Partitions :
                    Takes(c, pt) =>
                        total_ = total + (IF cons'[c].pc = "commit" /\ cons'[c].applied
                                          THEN 0 ELSE 1)
              /\ (cons[c].pc = "commit" /\ cons'[c].pc = "poll"
                                        /\ position'[c] = position[c]) =>
                    total_ = total + (IF cons[c].applied THEN 1 ELSE 0)
              /\ (cons'[c] = cons[c] /\ position'[c] = position[c]
                                     /\ metrics'[c] # metrics[c]) =>
                    /\ faults' # faults
                    /\ total_ = total + 1 \/ total_ = 0]_vars

(* The Consumer of contour c is about to commit a message whose event is
   not in the ledger: applyEvent returned from a recovered panic. *)
Recovered(c) ==
    /\ cons[c].pc = "commit"
    /\ cons[c].applied
    /\ ~cons[c].seen
    /\ EventInHand(c).event_id \notin ledger[c]

(* C36: a message whose apply ended in a recovered panic is not committed
   to the bus and not counted as processed, and a drain that ends with a
   failure, a recovered panic included, marks no row published. *)
C36_RecoveredPanicIsNotSuccess ==
    [][\A c \in Contours :
          /\ Recovered(c) =>
                /\ committed'[c] = committed[c]
                /\ metrics'[c].processedCount <= metrics[c].processedCount
          /\ \A p \in PublisherIds :
                (pub[c][p].pc = "publishing" /\ faults' # faults) => queue'[c] = queue[c]]_vars

(* C37: after one local write, replication terminates: the bus never holds
   as many messages as the model allows, from some point on no message is
   added to the bus and no row is added to either outbox, and from some
   point on no outbox holds an unpublished row. *)
C37_ReplicationTerminates ==
    /\ [](Len(bus) < MaxEvents)
    /\ \E n \in 0 .. MaxEvents : <>[](Len(bus) = n)
    /\ \A c \in Contours : \E n \in 0 .. MaxEvents : <>[](Len(queue[c]) = n)
    /\ <>[](\A c \in Contours : \A i \in 1 .. Len(queue[c]) : queue[c][i].published)

(* The write was replicated, the Consumer's apply was itself captured and
   sent back, and both outboxes are drained. *)
C37_Witness ==
    /\ writes = 0
    /\ \A c \in Contours : Len(queue[c]) > 0
    /\ Len(bus) >= 2
    /\ Quiescent

(* C38: of the transactions that Consumer instances of one contour run for
   one event_id, at most one commits: a step of an instance changes the
   table, the outbox or the ledger of the contour only by committing a
   transaction whose event_id the ledger does not hold yet, no two open
   transactions have inserted the same event_id, and a transaction that
   fails on the primary key leaves the database as it was. *)
C38_OneTransactionPerEventCommits ==
    [][/\ (txs' # txs /\ <<tbl, queue, ledger>>' # <<tbl, queue, ledger>>) =>
            \E i \in ConsumerIds :
                /\ txs[i].pc = "inserted"
                /\ txs'[i].outcome = "committed"
                /\ TxEvent(i).event_id \notin ledger["B"]
                /\ ledger'["B"] = ledger["B"] \cup {TxEvent(i).event_id}
       /\ \A i, j \in ConsumerIds :
            (i # j /\ txs[i].pc = "inserted" /\ txs[j].pc = "inserted") =>
                TxEvent(i).event_id # TxEvent(j).event_id
       /\ \A i \in ConsumerIds :
            (txs[i].pc = "applied" /\ txs'[i].pc = "poll") =>
                UNCHANGED <<tbl, queue, ledger>>]_vars

(* Both instances passed the lookup for the one event on the bus; one
   committed its write, which the trigger captured once, and the other
   failed on the primary key. *)
C38_Witness ==
    \E i, j \in ConsumerIds :
        /\ txs[i].outcome = "committed"
        /\ txs[j].outcome = "duplicate key"
        /\ txs[i].position = txs[j].position
        /\ Len(queue["B"]) = 1
        /\ Len(bus) = 1

====
